---- MODULE Spec2Model ----
(***************************************************************************)
(* Model of the fluent ToolBuilder of src/src/tool-builder.ts.             *)
(*                                                                         *)
(* The heap holds the JavaScript objects the program allocates: ToolBuilder*)
(* instances (fields toolConfig, contextSchema) and the object literals    *)
(* { build } that tool() returns.  Reading a property an object does not   *)
(* have yields undefined, so every heap object carries both fields and an  *)
(* object literal carries them as undefined.                               *)
(***************************************************************************)
EXTENDS Integers, Sequences, FiniteSets, TLC

\* ---------------------------------------------------------------- bounds
MaxRefs == 4   \* references the caller holds, the root builder included

\* ------------------------------------------------- values of the program
Fields == {"a", "b"}
Absent == "absent"

\* a context value: each field carries a string, a number, or is missing
StrVal == "x"
NumVal == "5"
TypeOf(v) == IF v = StrVal THEN "string" ELSE IF v = NumVal THEN "number" ELSE Absent

Ctx(va, vb) == [f \in Fields |-> IF f = "a" THEN va ELSE vb]
EmptyCtx == Ctx(Absent, Absent)
Contexts == {EmptyCtx, Ctx(StrVal, Absent), Ctx(NumVal, Absent), Ctx(StrVal, StrVal)}

\* a z.object({...}) shape: each field is declared string, number, or not declared
Shape(ta, tb) == [f \in Fields |-> IF f = "a" THEN ta ELSE tb]
Fragments == {Shape("string", Absent), Shape("number", Absent), Shape(Absent, "string")}

\* the values of the field contextSchema
UndefinedSchema == [tag |-> "undefined", shape |-> Shape(Absent, Absent)]
ZodObject(shape) == [tag |-> "object", shape |-> shape]

\* the values of the field toolConfig: null, undefined (property missing),
\* a Tool object, or a function from the context to a Tool
NullConfig == [tag |-> "null", name |-> "none"]
UndefinedConfig == [tag |-> "undefined", name |-> "none"]
StaticSources == {[tag |-> "static", name |-> "greet"]}
FunctionSources == {[tag |-> "function", name |-> "weather"]}
Sources == StaticSources \cup FunctionSources

\* a Tool object; `uses` is the context its execute closure captured
NoTool == [tag |-> "none", name |-> "none", uses |-> EmptyCtx]
StaticTool(config) == [tag |-> "tool", name |-> config.name, uses |-> EmptyCtx]
\* calling a function source: (ctx) => ({ name, ..., execute: closes over ctx })
Apply(config, ctx) == [tag |-> "tool", name |-> config.name, uses |-> ctx]

\* ---------------------------------------------------------- zod library
\* ZodObject.extend: field-level union, the argument's fields override
extend(base, schema) ==
    ZodObject([f \in Fields |-> IF schema.shape[f] # Absent THEN schema.shape[f]
                                ELSE base.shape[f]])

\* does ZodObject.parse accept the value: every declared field present, of its type
Accepts(schema, ctx) ==
    \A f \in Fields : schema.shape[f] # Absent => TypeOf(ctx[f]) = schema.shape[f]

\* the value ZodObject.parse returns: undeclared keys are stripped
parse(schema, ctx) ==
    [f \in Fields |-> IF schema.shape[f] # Absent THEN ctx[f] ELSE Absent]

\* ------------------------------------------------------------- the heap
NewToolBuilder == [cls |-> "ToolBuilder", toolConfig |-> NullConfig,
                   contextSchema |-> UndefinedSchema]
\* the object literal { build: this.build }
BuildHandle == [cls |-> "Object", toolConfig |-> UndefinedConfig,
                contextSchema |-> UndefinedSchema]

VARIABLES heap, chain, last
vars == <<heap, chain, last>>

\* heap  : sequence of objects, an object's address is its index
\* chain : for each reference the caller holds, the calls that produced it
\* last  : the most recent build call, with its outcome

toolBuilder == 1

Truthy(v) == v.tag \notin {"null", "undefined"}

\* what a build call does: returns a Tool or throws; `invoked` lists the
\* arguments the function source was called with
Outcome(kind, result, invoked) ==
    [outcome |-> kind, result |-> result, invoked |-> invoked]

\* no build call made yet
NoCall == [recv |-> 0, ctx |-> EmptyCtx, res |-> Outcome("none", NoTool, <<>>)]

Init ==
    /\ heap = <<NewToolBuilder>>
    /\ chain = [r \in {toolBuilder} |->
                  [kind |-> "builder", base |-> 0, frags |-> <<>>, source |-> NullConfig]]
    /\ last = NoCall

\* ------------------------------------------------------------ withContext
\* the builder withContext returns (lines 24-29): a fresh ToolBuilder whose
\* contextSchema is this.contextSchema.extend(schema), or schema itself
\* when this has no schema yet
withContextBuilder(this, schema) ==
    [NewToolBuilder EXCEPT !.contextSchema =
        IF Truthy(this.contextSchema) THEN extend(this.contextSchema, schema)
        ELSE schema]

\* a withContext that stores the combined schema on the receiver as well
withContextInPlace(h, b, schema) ==
    Append([h EXCEPT ![b].contextSchema = withContextBuilder(h[b], schema).contextSchema],
           withContextBuilder(h[b], schema))

\* the heap after withContext on the object at address b
withContextHeap(h, b, schema) == Append(h, withContextBuilder(h[b], schema))

withContext(b, shape) ==
    /\ chain[b].kind = "builder"
    /\ Cardinality(DOMAIN chain) < MaxRefs
    /\ heap' = withContextHeap(heap, b, ZodObject(shape))
    /\ chain' = [r \in DOMAIN chain \cup {Len(heap) + 1} |->
                   IF r \in DOMAIN chain THEN chain[r]
                   ELSE [kind |-> "builder", base |-> b,
                         frags |-> Append(chain[b].frags, shape),
                         source |-> NullConfig]]
    /\ UNCHANGED last

\* ------------------------------------------------------------------- tool
\* the heap after tool(config) on the object at address b (lines 54-58):
\* a fresh ToolBuilder that receives config, then the returned object literal
toolHeap(h, b, config) ==
    Append(Append(h, [NewToolBuilder EXCEPT !.toolConfig = config]), BuildHandle)

tool(b, config) ==
    /\ chain[b].kind = "builder"
    /\ Cardinality(DOMAIN chain) < MaxRefs
    /\ heap' = toolHeap(heap, b, config)
    /\ chain' = [r \in DOMAIN chain \cup {Len(heap) + 2} |->
                   IF r \in DOMAIN chain THEN chain[r]
                   ELSE [kind |-> "handle", base |-> b,
                         frags |-> chain[b].frags, source |-> config]]
    /\ UNCHANGED last

\* ------------------------------------------------------------------ build
\* build (lines 78-91) run with receiver `this`
build(this, ctx) ==
    IF ~Truthy(this.toolConfig)
    THEN Outcome("ConfigurationError", NoTool, <<>>)
    ELSE IF this.toolConfig.tag = "function"
         THEN IF Truthy(this.contextSchema) /\ ~Accepts(this.contextSchema, ctx)
              THEN Outcome("ValidationError", NoTool, <<>>)
              ELSE Outcome("returned", Apply(this.toolConfig, ctx), <<ctx>>)
         ELSE Outcome("returned", StaticTool(this.toolConfig), <<>>)

\* the method call r.build(ctx): the receiver `this` is the object r refers to
Build(r, ctx) ==
    /\ last' = [recv |-> r, ctx |-> ctx, res |-> build(heap[r], ctx)]
    /\ UNCHANGED <<heap, chain>>

Next ==
    \/ \E b \in DOMAIN chain, shape \in Fragments : withContext(b, shape)
    \/ \E b \in DOMAIN chain, config \in Sources : tool(b, config)
    \/ \E r \in DOMAIN chain, ctx \in Contexts : Build(r, ctx)

Spec == Init /\ [][Next]_vars

\* ------------------------------------------------- reading a build call
\* the call went through a handle that tool() returned
HandleCall(c) == c.recv # 0 /\ chain[c.recv].kind = "handle"

\* the handle a call went through, as the caller produced it
HandleOf(c) == chain[c.recv]

\* the schema accumulated on the builder that tool() was called on
DeclaredSchema(c) == heap[HandleOf(c).base].contextSchema

\* the call went through a handle bound to a function source after >= 1 withContext
FunctionCallWithSchema(c) ==
    /\ HandleCall(c)
    /\ HandleOf(c).source.tag = "function"
    /\ Len(HandleOf(c).frags) >= 1

\* ------------------------------------------------------------------ claims

\* C1: withContext(S) then tool(f) then build(ctx) with ctx satisfying S
\* returns f(ctx) without error, and f is invoked exactly once.
C1_ValidContextBuildsTool ==
    (FunctionCallWithSchema(last) /\ Accepts(DeclaredSchema(last), last.ctx)) =>
        /\ last.res.outcome = "returned"
        /\ last.res.result = Apply(HandleOf(last).source, last.ctx)
        /\ Len(last.res.invoked) = 1

\* C2: with a static tool definition d, after any withContext calls and for
\* any ctx, tool(d).build(ctx) returns d unchanged and raises no validation error.
C2_StaticPassthrough ==
    (HandleCall(last) /\ HandleOf(last).source.tag = "static") =>
        /\ last.res.outcome = "returned"
        /\ last.res.result = StaticTool(HandleOf(last).source)

\* C3: with a function source and an accumulated schema, build(ctx) with a
\* ctx the schema rejects fails with a ValidationError, produces no tool and
\* does not invoke the function.
C3_InvalidContextRejected ==
    (FunctionCallWithSchema(last) /\ ~Accepts(DeclaredSchema(last), last.ctx)) =>
        /\ last.res.outcome = "ValidationError"
        /\ last.res.result = NoTool
        /\ last.res.invoked = <<>>

\* C4: build raises ConfigurationError exactly when no tool source was bound:
\* on a chain of withContext calls only it does, on the handle tool() returned
\* it never does.
C4_ConfigurationErrorIffUnbound ==
    last.recv # 0 =>
        (last.res.outcome = "ConfigurationError" <=> chain[last.recv].kind = "builder")

\* C5: after withContext({a:string}).withContext({a:number}) and a function
\* source, build({a:5}) succeeds and build({a:"x"}) fails validation.
C5_LaterFragmentWins ==
    ( /\ FunctionCallWithSchema(last)
      /\ HandleOf(last).frags = <<Shape("string", Absent), Shape("number", Absent)>> ) =>
        /\ last.ctx = Ctx(NumVal, Absent) => last.res.outcome = "returned"
        /\ last.ctx = Ctx(StrVal, Absent) => last.res.outcome = "ValidationError"

\* C6: with a function source f and no withContext before tool(f), build(ctx)
\* invokes f with ctx as given and returns f(ctx), for every ctx.
C6_NoContextBuild ==
    ( /\ HandleCall(last)
      /\ HandleOf(last).source.tag = "function"
      /\ HandleOf(last).frags = <<>> ) =>
        /\ last.res.outcome = "returned"
        /\ last.res.invoked = <<last.ctx>>
        /\ last.res.result = Apply(HandleOf(last).source, last.ctx)

\* C7: no operation changes the contextSchema or toolConfig of an existing
\* builder instance: every object on the heap keeps its fields across every
\* step, so builders derived from one base stay independent of each other
\* and of the base.
C7_Immutability ==
    [][\A a \in DOMAIN heap : a \in DOMAIN heap' /\ heap'[a] = heap[a]]_vars

\* C7 witness: two builders made by withContext from the same base, a tool
\* declared on one of them, and a build made through the returned handle.
C7_Witness ==
    \E x, y \in DOMAIN chain :
        /\ x # y
        /\ chain[x].kind = "builder" /\ chain[y].kind = "builder"
        /\ chain[x].base = chain[y].base /\ chain[x].base # 0
        /\ HandleCall(last) /\ HandleOf(last).base = x

\* C8: build is repeatable on one handle: a build with the ctx of the build
\* before it on the same handle has the same outcome, and after a build with
\* a ctx the schema rejects, the next build on the same handle with a
\* conforming ctx succeeds.
C8_Repeatable ==
    [][(HandleCall(last) /\ last'.recv = last.recv) =>
          /\ last'.ctx = last.ctx => last'.res = last.res
          /\ ( /\ FunctionCallWithSchema(last)
               /\ ~Accepts(DeclaredSchema(last), last.ctx)
               /\ Accepts(DeclaredSchema(last), last'.ctx) )
             => last'.res.outcome = "returned"]_vars

\* C9: after withContext(S1)...withContext(Sn) and tool(f), the schema build
\* validates against declares every field of every fragment, so a ctx missing
\* a field of any fragment, the earliest included, is rejected by validation.
C9_SchemaKeepsEveryFragment ==
    FunctionCallWithSchema(last) =>
        \A k \in DOMAIN HandleOf(last).frags, f \in Fields :
            HandleOf(last).frags[k][f] # Absent =>
                /\ heap[last.recv].contextSchema.shape[f] # Absent
                /\ last.ctx[f] = Absent => last.res.outcome = "ValidationError"

\* C10: with a function source and a schema, a build whose ctx validates
\* invokes the function with the parsed value the validator returned, so
\* fields the schema does not declare do not reach the function.
C10_FunctionGetsParsedContext ==
    (FunctionCallWithSchema(last) /\ Accepts(DeclaredSchema(last), last.ctx)) =>
        last.res.invoked = <<parse(DeclaredSchema(last), last.ctx)>>

====
